---------------------------- MODULE Spec2Model ----------------------------
(***************************************************************************)
(* A model of the CISA news crawler (src/cisa_crawler.py).                 *)
(*                                                                         *)
(* Four specifications share the module:                                   *)
(*   SpecLinks    extract_article_links applied to one listing markup      *)
(*   SpecFetch    get_page_content, one GET attempt per step               *)
(*   SpecContent  extract_article_content applied to one article markup    *)
(*   SpecCrawl    run(): crawl_all_pages, crawl_article, save_to_json      *)
(*                                                                         *)
(* Strings the code inspects are kept as the pieces it inspects them by:   *)
(* a URL is its host labels, its path segments, its extension and its      *)
(* page query; a text is a sequence of characters in which a block of n    *)
(* non-whitespace characters is written as one token of length n.          *)
(***************************************************************************)
EXTENDS Integers, Sequences, FiniteSets, TLC

VARIABLES
    \* ---- extract_article_links on its own (SpecLinks)
    l_pc, l_html, l_page, l_visited, l_result,
    \* ---- get_page_content (SpecFetch)
    f_pc, f_max_retries, f_attempt, f_gets, f_responses, f_result,
    \* ---- extract_article_content on its own (SpecContent)
    c_pc, c_html, c_selected, c_content, c_again,
    \* ---- one run of the crawler (SpecCrawl)
    pc, site, max_articles, max_pages, page_num, article_links, idx,
    articles, visited_urls, listing_fetches, loop_pages, article_fetches,
    halt, save_result, exit_code

linkVars    == <<l_pc, l_html, l_page, l_visited, l_result>>
fetchVars   == <<f_pc, f_max_retries, f_attempt, f_gets, f_responses, f_result>>
contentVars == <<c_pc, c_html, c_selected, c_content, c_again>>
crawlVars   == <<pc, site, max_articles, max_pages, page_num, article_links, idx,
                 articles, visited_urls, listing_fetches, loop_pages,
                 article_fetches, halt, save_result, exit_code>>
vars        == <<linkVars, fetchVars, contentVars, crawlVars>>

-----------------------------------------------------------------------------
(* Bounds of the model *)

MaxAnchors == 2      \* anchors on a listing page of the general site
MaxPages   == 2      \* listing pages of the general site that hold anchors
MaxLimit   == 2      \* largest --max / --pages value drawn (besides 5)
MaxRetries == 3      \* largest max_retries drawn for get_page_content
MaxRegions == 2      \* cascade selectors that match on one article page
MaxChars   == 5      \* tokens of a text handed to the normalisation

(* Program constants *)

MinTitleLen    == 10    \* len(title) > 10
CascadeMinLen  == 200   \* len(content) > 200
FallbackMinLen == 200   \* len(content) < 200
MinLineLen     == 20    \* len(line.strip()) > 20
MinContentLen  == 100   \* len(content) < 100

-----------------------------------------------------------------------------
(* URLs *)

CisaHost  == <<"www", "cisa", "gov">>
OtherHost == <<"cisa", "gov", "example", "org">>
NoHost    == <<>>

\* self.base_url, "https://www.cisa.gov/news-events/news"
BaseUrl == [host |-> CisaHost, rooted |-> TRUE,
            path |-> <<"news-events", "news">>, ext |-> "", query |-> 0]

\* f"{self.base_url}?page={page_num}"
PageUrl(n) == [BaseUrl EXCEPT !.query = n]

\* urljoin(page_url, url): an href with a host stands as it is, a rooted
\* path replaces the base path, a relative path replaces its last segment.
\* The base's query is dropped in every case.
UrlJoin(base, href) ==
    IF href.host # NoHost THEN href
    ELSE IF href.rooted THEN [href EXCEPT !.host = base.host]
    ELSE [host |-> base.host, rooted |-> TRUE,
          path |-> SubSeq(base.path, 1, Len(base.path) - 1) \o href.path,
          ext |-> href.ext, query |-> href.query]

\* '/news-events/news/' occurs in the text of u: the two segments in a row,
\* a slash before them and a segment after them.
HasNewsSegment(u) ==
    \E i \in 1..Len(u.path) :
        /\ i + 1 < Len(u.path)
        /\ u.path[i] = "news-events"
        /\ u.path[i + 1] = "news"
        /\ (i > 1 \/ u.rooted \/ u.host # NoHost)

\* 'cisa.gov' occurs in the text of u (here: in its host).
HasCisaGov(u) ==
    \E i \in 1..Len(u.host) :
        i < Len(u.host) /\ u.host[i] = "cisa" /\ u.host[i + 1] = "gov"

\* url.endswith(e)
EndsWith(u, e) == u.query = 0 /\ u.ext = e

\* is_article_url(url)
IsArticleUrl(url) ==
    /\ HasCisaGov(url)
    /\ HasNewsSegment(url)
    /\ ~EndsWith(url, ".pdf")
    /\ ~EndsWith(url, ".doc")
    /\ ~EndsWith(url, ".docx")

-----------------------------------------------------------------------------
(* Listing markup: whether a div/article with a news|article|content|item|  *)
(* entry class is present, and the anchors in document order, each with its *)
(* href and the length of its stripped text.                                *)

Href(h, r, p, e) == [host |-> h, rooted |-> r, path |-> p, ext |-> e, query |-> 0]

HrefA      == Href(NoHost, TRUE, <<"news-events", "news", "a">>, "")
HrefB      == Href(NoHost, TRUE, <<"news-events", "news", "b">>, "")
HrefAAbs   == Href(CisaHost, TRUE, <<"news-events", "news", "a">>, "")
HrefRel    == Href(NoHost, FALSE, <<"news", "a">>, "")
HrefPdf    == Href(NoHost, TRUE, <<"news-events", "news", "r">>, ".pdf")
HrefOther  == Href(OtherHost, TRUE, <<"news-events", "news", "a">>, "")
HrefAbout  == Href(NoHost, TRUE, <<"about">>, "")
HrefEmpty  == Href(NoHost, FALSE, <<>>, "")

Hrefs == {HrefA, HrefB, HrefAAbs, HrefRel, HrefPdf, HrefOther, HrefAbout, HrefEmpty}

TitleLens == {0, MinTitleLen, MinTitleLen + 1}

Anchors == [href : Hrefs, title : TitleLens]

SeqsUpTo(S, n) == UNION {[1..k -> S] : k \in 0..n}

NoneHtml  == [kind |-> "none",  containers |-> FALSE, anchors |-> <<>>]
EmptyHtml == [kind |-> "empty", containers |-> FALSE, anchors |-> <<>>]

ListingHtml(S, n) ==
    [kind : {"html"}, containers : BOOLEAN, anchors : SeqsUpTo(S, n)]

\* Python truth of html_content: None and "" are false
Truthy(html) == html.kind = "html"

\* if url: (an empty href is false)
HrefGiven(h) == h.host # NoHost \/ h.rooted \/ h.path # <<>>

\* if title and len(title) > 10
TitleOk(t) == t # 0 /\ t > MinTitleLen

Candidate(t, u) == [title |-> t, url |-> u]

UrlsOf(cands) == {cands[i].url : i \in 1..Len(cands)}

\* lines 74-86: the anchors whose href matches /news-events/news/
RECURSIVE PathPatternTier(_, _, _)
PathPatternTier(anchors, page_url, acc) ==
    IF anchors = <<>> THEN acc
    ELSE LET link == Head(anchors)
             absolute_url == UrlJoin(page_url, link.href)
             take == /\ HasNewsSegment(link.href)
                     /\ HrefGiven(link.href)
                     /\ TitleOk(link.title)
         IN PathPatternTier(Tail(anchors), page_url,
                IF take THEN Append(acc, Candidate(link.title, absolute_url))
                ELSE acc)

\* lines 89-113: every anchor with an href
RECURSIVE HeuristicTier(_, _, _, _)
HeuristicTier(anchors, page_url, visited, acc) ==
    IF anchors = <<>> THEN acc
    ELSE LET link == Head(anchors)
             absolute_url == UrlJoin(page_url, link.href)
             take == /\ HrefGiven(link.href)
                     /\ IsArticleUrl(absolute_url)
                     /\ absolute_url \notin UrlsOf(acc)
                     /\ absolute_url \notin visited
                     /\ TitleOk(link.title)
         IN HeuristicTier(Tail(anchors), page_url, visited,
                IF take THEN Append(acc, Candidate(link.title, absolute_url))
                ELSE acc)

\* extract_article_links(html_content, page_url), reading self.visited_urls
ExtractArticleLinks(html, page_url, visited) ==
    IF ~Truthy(html) THEN <<>>
    ELSE LET tier2 == IF ~html.containers
                      THEN PathPatternTier(html.anchors, page_url, <<>>)
                      ELSE <<>>
         IN IF tier2 = <<>>
            THEN HeuristicTier(html.anchors, page_url, visited, <<>>)
            ELSE tier2

-----------------------------------------------------------------------------
(* Texts.  A character is a newline, a space, another whitespace character  *)
(* (a tab) or a block of n non-whitespace characters.                       *)

NL  == [c |-> "nl",  n |-> 1]
SP  == [c |-> "sp",  n |-> 1]
TAB == [c |-> "tab", n |-> 1]
W(k) == [c |-> "w", n |-> k]

\* \s of the regular expressions, and what str.strip() removes
IsSpace(ch) == ch.c \in {"nl", "sp", "tab"}

RECURSIVE TextLen(_)
TextLen(t) == IF t = <<>> THEN 0 ELSE Head(t).n + TextLen(Tail(t))

\* the length of the longest prefix of t made of whitespace only
RECURSIVE SpaceRun(_)
SpaceRun(t) ==
    IF t = <<>> \/ ~IsSpace(Head(t)) THEN 0 ELSE 1 + SpaceRun(Tail(t))

\* re.sub(r'\n\s*\n', '\n\n', content): leftmost match, \s* greedy, so the
\* match runs from a newline to the last newline of the whitespace after it
RECURSIVE CollapseBlankLines(_)
CollapseBlankLines(t) ==
    IF t = <<>> THEN <<>>
    ELSE IF Head(t) # NL THEN <<Head(t)>> \o CollapseBlankLines(Tail(t))
    ELSE LET rest == Tail(t)
             ends == {j \in 1..SpaceRun(rest) : rest[j] = NL}
             last == CHOOSE j \in ends : \A k \in ends : k <= j
         IN IF ends = {} THEN <<NL>> \o CollapseBlankLines(rest)
            ELSE <<NL, NL>> \o
                 CollapseBlankLines(SubSeq(rest, last + 1, Len(rest)))

\* re.sub(r' +', ' ', content)
RECURSIVE CollapseSpaces(_)
CollapseSpaces(t) ==
    IF Len(t) < 2 THEN t
    ELSE IF t[1] = SP /\ t[2] = SP THEN CollapseSpaces(Tail(t))
    ELSE <<Head(t)>> \o CollapseSpaces(Tail(t))

\* re.sub(r'\n +', '\n', content)
RECURSIVE StripLeadingSpaces(_)
StripLeadingSpaces(t) ==
    IF Len(t) < 2 THEN t
    ELSE IF t[1] = NL /\ t[2] = SP
         THEN StripLeadingSpaces(<<NL>> \o Tail(Tail(t)))
    ELSE <<Head(t)>> \o StripLeadingSpaces(Tail(t))

\* content.split('\n'): the lines, always at least one
RECURSIVE SplitLines(_, _)
SplitLines(t, line) ==
    IF t = <<>> THEN <<line>>
    ELSE IF Head(t) = NL THEN <<line>> \o SplitLines(Tail(t), <<>>)
    ELSE SplitLines(Tail(t), Append(line, Head(t)))

RECURSIVE LStrip(_)
LStrip(line) ==
    IF line # <<>> /\ IsSpace(Head(line)) THEN LStrip(Tail(line)) ELSE line

RECURSIVE RStrip(_)
RStrip(line) ==
    IF line # <<>> /\ IsSpace(line[Len(line)])
    THEN RStrip(SubSeq(line, 1, Len(line) - 1)) ELSE line

\* line.strip()
Strip(line) == RStrip(LStrip(line))

\* '\n'.join(lines)
RECURSIVE JoinLines(_)
JoinLines(lines) ==
    IF lines = <<>> THEN <<>>
    ELSE IF Len(lines) = 1 THEN lines[1]
    ELSE lines[1] \o <<NL>> \o JoinLines(Tail(lines))

\* a variant that measures the line before stripping it
RECURSIVE CleanedLinesUnstrippedLength(_)
CleanedLinesUnstrippedLength(lines) ==
    IF lines = <<>> THEN <<>>
    ELSE IF TextLen(Head(lines)) > MinLineLen
         THEN <<Strip(Head(lines))>> \o CleanedLinesUnstrippedLength(Tail(lines))
    ELSE CleanedLinesUnstrippedLength(Tail(lines))

\* [line.strip() for line in lines if len(line.strip()) > 20]
RECURSIVE CleanedLines(_)
CleanedLines(lines) ==
    IF lines = <<>> THEN <<>>
    ELSE IF TextLen(Strip(Head(lines))) > MinLineLen
         THEN <<Strip(Head(lines))>> \o CleanedLines(Tail(lines))
    ELSE CleanedLines(Tail(lines))

\* lines 252-260: the clean-up of the selected text
Normalize(content) ==
    IF content = <<>> THEN content
    ELSE JoinLines(CleanedLines(SplitLines(
             StripLeadingSpaces(CollapseSpaces(CollapseBlankLines(content))),
             <<>>)))

-----------------------------------------------------------------------------
(* Article markup, as it stands after the unwanted elements are removed     *)
(* (lines 220-223): for each selector of the cascade the text of the first  *)
(* element it selects, if any, and the text of the body element, if any.    *)
(* An element's text is get_text(separator='\n', strip=True).               *)

ContentSelectors ==
    <<"main", "article", ".content", ".post-content", ".article-content",
      ".entry-content", "#content", ".main-content">>

NoElem == [present |-> FALSE, text |-> <<>>]
Elem(t) == [present |-> TRUE, text |-> t]

\* lines 237-243: the cascade; content keeps the text of the last element
\* looked at when no element's text is longer than 200
RECURSIVE Cascade(_, _, _)
Cascade(regions, i, content) ==
    IF i > Len(ContentSelectors) THEN content
    ELSE LET content_elem == regions[i]
         IN IF ~content_elem.present THEN Cascade(regions, i + 1, content)
            ELSE IF TextLen(content_elem.text) > CascadeMinLen
                 THEN content_elem.text
            ELSE Cascade(regions, i + 1, content_elem.text)

\* lines 246-249: the whole body when the cascade's text is short
BodyFallback(content, body) ==
    IF (content = <<>> \/ TextLen(content) < FallbackMinLen) /\ body.present
    THEN body.text ELSE content

\* lines 237-249: the text the extractor takes, before the clean-up
SelectContent(html) ==
    BodyFallback(Cascade(html.regions, 1, <<>>), html.body)

\* extract_article_content(html_content)
ExtractArticleContent(html) ==
    IF ~Truthy(html) THEN <<>> ELSE Normalize(SelectContent(html))

-----------------------------------------------------------------------------
(* Variables a specification does not use stay at these values.            *)

LinksIdle ==
    /\ l_pc = "idle" /\ l_html = NoneHtml /\ l_page = 1
    /\ l_visited = {} /\ l_result = <<>>

FetchIdle ==
    /\ f_pc = "idle" /\ f_max_retries = 0 /\ f_attempt = 0 /\ f_gets = 0
    /\ f_responses = <<>> /\ f_result = [kind |-> "pending", text |-> ""]

ContentIdle ==
    /\ c_pc = "idle"
    /\ c_html = [kind |-> "none", regions |-> [i \in 1..Len(ContentSelectors) |-> NoElem],
                 body |-> NoElem]
    /\ c_selected = <<>> /\ c_content = <<>> /\ c_again = <<>>

CrawlIdle ==
    /\ pc = "idle" /\ site = "any" /\ max_articles = 0 /\ max_pages = 0
    /\ page_num = 1 /\ article_links = <<>> /\ idx = 1 /\ articles = <<>>
    /\ visited_urls = {} /\ listing_fetches = <<>> /\ loop_pages = <<>>
    /\ article_fetches = <<>> /\ halt = "" /\ save_result = ""
    /\ exit_code = -1

-----------------------------------------------------------------------------
(* SpecLinks: extract_article_links on every listing markup of the bounds  *)

UrlA == UrlJoin(PageUrl(1), HrefA)
UrlB == UrlJoin(PageUrl(1), HrefB)

InitLinks ==
    /\ l_pc = "start"
    /\ l_html \in ListingHtml(Anchors, MaxAnchors) \cup {NoneHtml, EmptyHtml}
    /\ l_page \in {1, 2}
    /\ l_visited \in {{}, {UrlA}}
    /\ l_result = <<>>
    /\ FetchIdle /\ ContentIdle /\ CrawlIdle

Discover ==
    /\ l_pc = "start"
    /\ l_result' = ExtractArticleLinks(l_html, PageUrl(l_page), l_visited)
    /\ l_pc' = "done"
    /\ UNCHANGED <<l_html, l_page, l_visited, fetchVars, contentVars, crawlVars>>

NextLinks == Discover

SpecLinks == InitLinks /\ [][NextLinks]_vars

-----------------------------------------------------------------------------
(* SpecFetch: get_page_content(url, max_retries), one GET per step.  The   *)
(* transport answers each GET with a body or with one of the failures      *)
(* requests raises: a timeout, a connection error, or the HTTPError of     *)
(* raise_for_status on a non-2xx status.                                   *)

Failures == {"Timeout", "ConnectionError", "HTTPError"}
Bodies   == {"", "markup-1", "markup-2"}

Ok(body)   == [ok |-> TRUE,  body |-> body, error |-> ""]
Failed(e)  == [ok |-> FALSE, body |-> "",   error |-> e]

Pending    == [kind |-> "pending", text |-> ""]
None       == [kind |-> "none",    text |-> ""]
Text(body) == [kind |-> "text",    text |-> body]

CaughtTimeoutOnly(error) == error = "Timeout"

\* except requests.RequestException: Timeout, ConnectionError and HTTPError
\* are all subclasses of it
Caught(error) == error \in {"Timeout", "ConnectionError", "HTTPError"}

InitFetch ==
    /\ f_pc = "loop"
    /\ f_max_retries \in 0..MaxRetries
    /\ f_attempt = 0
    /\ f_gets = 0
    /\ f_responses = <<>>
    /\ f_result = Pending
    /\ LinksIdle /\ ContentIdle /\ CrawlIdle

\* lines 45-51: the GET of this attempt succeeds
GetSucceeds ==
    /\ f_pc = "loop"
    /\ f_attempt < f_max_retries
    /\ \E body \in Bodies :
        /\ f_responses' = Append(f_responses, Ok(body))
        /\ f_result' = Text(body)
    /\ f_gets' = f_gets + 1
    /\ f_pc' = "returned"
    /\ UNCHANGED <<f_max_retries, f_attempt, linkVars, contentVars, crawlVars>>

\* lines 45-49, 52-58: the GET of this attempt fails
GetFails ==
    /\ f_pc = "loop"
    /\ f_attempt < f_max_retries
    /\ \E error \in Failures :
        /\ f_responses' = Append(f_responses, Failed(error))
        /\ IF ~Caught(error)
           THEN f_pc' = "raised" /\ UNCHANGED <<f_attempt, f_result>>
           ELSE IF f_attempt < f_max_retries - 1
           THEN f_pc' = "loop" /\ f_attempt' = f_attempt + 1 /\ UNCHANGED f_result
           ELSE f_pc' = "returned" /\ f_result' = None /\ UNCHANGED f_attempt
    /\ f_gets' = f_gets + 1
    /\ UNCHANGED <<f_max_retries, linkVars, contentVars, crawlVars>>

\* line 59: the loop is over
LoopOver ==
    /\ f_pc = "loop"
    /\ ~(f_attempt < f_max_retries)
    /\ f_result' = None
    /\ f_pc' = "returned"
    /\ UNCHANGED <<f_max_retries, f_attempt, f_gets, f_responses,
                   linkVars, contentVars, crawlVars>>

NextFetch == GetSucceeds \/ GetFails \/ LoopOver

SpecFetch == InitFetch /\ [][NextFetch]_vars

-----------------------------------------------------------------------------
(* SpecContent: extract_article_content on every article markup of the     *)
(* bounds, then the clean-up applied once more to the text it returned.    *)

RegionTexts == {<<>>, <<W(150)>>, <<W(200)>>, <<W(201)>>, <<W(300)>>}
BodyTexts   == {<<W(50)>>, <<W(300)>>}
Chars       == {NL, SP, TAB, W(1), W(20), W(21)}

Selectors == 1..Len(ContentSelectors)

\* the markups in which the selectors of P match, and no other
RegionsOn(P) ==
    {[i \in Selectors |-> IF i \in P THEN Elem(f[i]) ELSE NoElem] :
        f \in [P -> RegionTexts]}

CascadeHtml ==
    UNION {[kind : {"html"}, regions : RegionsOn(P),
            body : {NoElem} \cup {Elem(t) : t \in BodyTexts}] :
           P \in {Q \in SUBSET Selectors : Cardinality(Q) <= MaxRegions}}

\* a page that is a body around one text
BodyOnlyHtml(t) ==
    [kind |-> "html", regions |-> [i \in Selectors |-> NoElem], body |-> Elem(t)]

InitContent ==
    /\ c_pc = "start"
    /\ c_html \in CascadeHtml \cup {BodyOnlyHtml(t) : t \in SeqsUpTo(Chars, MaxChars)}
    /\ c_selected = <<>>
    /\ c_content = <<>>
    /\ c_again = <<>>
    /\ LinksIdle /\ FetchIdle /\ CrawlIdle

Extract ==
    /\ c_pc = "start"
    /\ c_selected' = SelectContent(c_html)
    /\ c_content' = ExtractArticleContent(c_html)
    /\ c_pc' = "extracted"
    /\ UNCHANGED <<c_html, c_again, linkVars, fetchVars, crawlVars>>

\* lines 252-260 once more, on the text returned
CleanAgain ==
    /\ c_pc = "extracted"
    /\ c_again' = Normalize(c_content)
    /\ c_pc' = "again"
    /\ UNCHANGED <<c_html, c_selected, c_content, linkVars, fetchVars, crawlVars>>

NextContent == Extract \/ CleanAgain

SpecContent == InitContent /\ [][NextContent]_vars

-----------------------------------------------------------------------------
(* SpecCrawl: one run of the crawler.  The site answers every fetch: a     *)
(* listing page with some markup or with a failure, an article URL with    *)
(* some article markup or with a failure.  get_page_content has then made  *)
(* its attempts (SpecFetch) and returned a text or None.                   *)

\* ---- what the site may serve

AnchorA == [href |-> HrefA, title |-> MinTitleLen + 1]
AnchorB == [href |-> HrefB, title |-> MinTitleLen + 1]
AnchorShortTitle == [href |-> HrefB, title |-> MinTitleLen]
CrawlAnchors == {AnchorA, AnchorB, AnchorShortTitle}

NoAnchorsHtml == [kind |-> "html", containers |-> FALSE, anchors |-> <<>>]

ScenarioNames ==
    <<"s1", "s2", "s3", "s4", "s5", "s6", "s7", "s8", "s9", "s10", "s11">>

ScenarioAnchor(i) ==
    [href |-> Href(NoHost, TRUE, <<"news-events", "news", ScenarioNames[i]>>, ""),
     title |-> 25]

\* the site "listing10": ten qualifying anchors on page 1, one more on page 2
ScenarioListing(n) ==
    [kind |-> "html", containers |-> FALSE,
     anchors |-> IF n = 1 THEN [i \in 1..10 |-> ScenarioAnchor(i)]
                 ELSE IF n = 2 THEN <<ScenarioAnchor(11)>>
                 ELSE <<>>]

ListingResponses(s, n) ==
    {NoneHtml, EmptyHtml} \cup
    (IF s = "listing10" THEN {ScenarioListing(n)}
     ELSE IF n <= MaxPages THEN ListingHtml(CrawlAnchors, MaxAnchors)
     ELSE {NoAnchorsHtml})

ArticleNone == [kind |-> "none", regions |-> [i \in Selectors |-> NoElem],
                body |-> NoElem]
\* a main region of 150 characters inside a body of 300
ArticleKept == [kind |-> "html",
                regions |-> [i \in Selectors |-> IF i = 1 THEN Elem(<<W(150)>>) ELSE NoElem],
                body |-> Elem(<<W(300)>>)]
\* a body of one line of 50 characters
ArticleShort == BodyOnlyHtml(<<W(50)>>)

\* a response with an empty body
ArticleEmpty == [kind |-> "empty", regions |-> [i \in Selectors |-> NoElem],
                 body |-> NoElem]

ArticleResponses == {ArticleNone, ArticleEmpty, ArticleKept, ArticleShort}

\* ---- crawl_article

NoData == [title |-> 0, url |-> BaseUrl, content |-> <<>>]

\* a variant that records the URL as visited only once its page was fetched
CrawlArticleMarkAfterFetch(visited, article_info, html_content) ==
    LET url == article_info.url
        content == ExtractArticleContent(html_content)
    IN IF url \in visited
       THEN [visited |-> visited, fetched |-> FALSE, ok |-> FALSE, data |-> NoData]
       ELSE IF ~Truthy(html_content)
       THEN [visited |-> visited, fetched |-> TRUE, ok |-> FALSE, data |-> NoData]
       ELSE IF content = <<>> \/ TextLen(content) < MinContentLen
       THEN [visited |-> visited \cup {url}, fetched |-> TRUE, ok |-> FALSE,
             data |-> NoData]
       ELSE [visited |-> visited \cup {url}, fetched |-> TRUE, ok |-> TRUE,
             data |-> [title |-> article_info.title, url |-> url,
                       content |-> content]]

\* crawl_article(article_info), html_content being what get_page_content
\* returns if it is called: the new visited set, whether the fetcher was
\* called, and the record made (ok) or None
CrawlArticle(visited, article_info, html_content) ==
    LET url == article_info.url
        content == ExtractArticleContent(html_content)
    IN IF url \in visited
       THEN [visited |-> visited, fetched |-> FALSE, ok |-> FALSE, data |-> NoData]
       ELSE IF ~Truthy(html_content)
       THEN [visited |-> visited \cup {url}, fetched |-> TRUE, ok |-> FALSE,
             data |-> NoData]
       ELSE IF content = <<>> \/ TextLen(content) < MinContentLen
       THEN [visited |-> visited \cup {url}, fetched |-> TRUE, ok |-> FALSE,
             data |-> NoData]
       ELSE [visited |-> visited \cup {url}, fetched |-> TRUE, ok |-> TRUE,
             data |-> [title |-> article_info.title, url |-> url,
                       content |-> content]]

\* ---- crawl_all_pages

\* line 335: if max_articles and len(self.articles) >= max_articles
LimitReachedAtPage(limit, n) == limit # 0 /\ n >= limit

\* line 339: if max_pages and page_num > max_pages
PageLimitReached(limit, n) == limit # 0 /\ n > limit

LimitReachedMidLoopOffByOne(limit, n) == limit # 0 /\ n > limit

\* line 367: if max_articles and len(self.articles) >= max_articles
LimitReachedMidLoop(limit, n) == limit # 0 /\ n >= limit

ListingVerdictSkipEmptyPage(html_content, links, n) ==
    IF ~Truthy(html_content) THEN "fetch_failed"
    ELSE IF links = <<>> /\ n = 1 THEN "no_links_first_page"
    ELSE "crawl"

\* lines 346-361: what the loop does with a listing page
ListingVerdict(html_content, links, n) ==
    IF ~Truthy(html_content) THEN "fetch_failed"
    ELSE IF links = <<>>
         THEN (IF n = 1 THEN "no_links_first_page" ELSE "last_page")
    ELSE "crawl"

SaveToJsonUncaught(io_ok) == IF io_ok THEN "written" ELSE "raised"

\* save_to_json: the write succeeds, or its exception is caught and logged
SaveToJson(io_ok) == IF io_ok THEN "written" ELSE "error_logged"

\* the status the process ends with: main() returns (0) unless an exception
\* escapes it (1)
ExitStatus(result) == IF result = "raised" THEN 1 ELSE 0

InitCrawl ==
    /\ pc = "loop"
    /\ site \in {"any", "listing10"}
    /\ max_articles \in (0..MaxLimit) \cup {5}
    /\ max_pages \in 0..MaxLimit
    /\ page_num = 1
    /\ article_links = <<>>
    /\ idx = 1
    /\ articles = <<>>
    /\ visited_urls = {}
    /\ listing_fetches = <<>>
    /\ loop_pages = <<>>
    /\ article_fetches = <<>>
    /\ halt = ""
    /\ save_result = ""
    /\ exit_code = -1
    /\ LinksIdle /\ FetchIdle /\ ContentIdle

crawlRest == <<site, max_articles, max_pages>>

\* lines 335-337
StopAtArticleLimit ==
    /\ pc = "loop"
    /\ LimitReachedAtPage(max_articles, Len(articles))
    /\ halt' = "max_articles"
    /\ pc' = "save"
    /\ UNCHANGED <<crawlRest, page_num, article_links, idx, articles, visited_urls,
                   listing_fetches, loop_pages, article_fetches, save_result,
                   exit_code, linkVars, fetchVars, contentVars>>

\* lines 339-341
StopAtPageLimit ==
    /\ pc = "loop"
    /\ ~LimitReachedAtPage(max_articles, Len(articles))
    /\ PageLimitReached(max_pages, page_num)
    /\ halt' = "max_pages"
    /\ pc' = "save"
    /\ UNCHANGED <<crawlRest, page_num, article_links, idx, articles, visited_urls,
                   listing_fetches, loop_pages, article_fetches, save_result,
                   exit_code, linkVars, fetchVars, contentVars>>

\* lines 343-363: fetch the listing page, find its links, stop or go on
FetchListing ==
    /\ pc = "loop"
    /\ ~LimitReachedAtPage(max_articles, Len(articles))
    /\ ~PageLimitReached(max_pages, page_num)
    /\ page_num <= MaxPages + 2
    /\ \E html_content \in ListingResponses(site, page_num) :
        LET links == ExtractArticleLinks(html_content, PageUrl(page_num), visited_urls)
            verdict == ListingVerdict(html_content, links, page_num)
        IN /\ article_links' = links
           /\ IF verdict = "crawl"
              THEN /\ pc' = "articles"
                   /\ loop_pages' = Append(loop_pages, page_num)
                   /\ UNCHANGED halt
              ELSE /\ pc' = "save"
                   /\ halt' = verdict
                   /\ UNCHANGED loop_pages
    /\ listing_fetches' = Append(listing_fetches, page_num)
    /\ idx' = 1
    /\ UNCHANGED <<crawlRest, page_num, articles, visited_urls, article_fetches,
                   save_result, exit_code, linkVars, fetchVars, contentVars>>

\* lines 366-375: one turn of the loop over the page's links
CrawlNextArticle ==
    /\ pc = "articles"
    /\ idx <= Len(article_links)
    /\ ~LimitReachedMidLoop(max_articles, Len(articles))
    /\ \E html_content \in ArticleResponses :
        LET r == CrawlArticle(visited_urls, article_links[idx], html_content)
        IN /\ visited_urls' = r.visited
           /\ article_fetches' = IF r.fetched
                                 THEN Append(article_fetches, article_links[idx].url)
                                 ELSE article_fetches
           /\ articles' = IF r.ok THEN Append(articles, r.data) ELSE articles
    /\ idx' = idx + 1
    /\ UNCHANGED <<crawlRest, pc, page_num, article_links, listing_fetches,
                   loop_pages, halt, save_result, exit_code,
                   linkVars, fetchVars, contentVars>>

\* lines 366-368, 378-379: the loop over the links ends, by exhaustion or by
\* the break at the article limit; on to the next page
EndOfPage ==
    /\ pc = "articles"
    /\ \/ idx > Len(article_links)
       \/ LimitReachedMidLoop(max_articles, Len(articles))
    /\ page_num' = page_num + 1
    /\ pc' = "loop"
    /\ UNCHANGED <<crawlRest, article_links, idx, articles, visited_urls,
                   listing_fetches, loop_pages, article_fetches, halt,
                   save_result, exit_code, linkVars, fetchVars, contentVars>>

\* lines 381-405, 429-430: save_to_json, then run() and main() return
Save ==
    /\ pc = "save"
    /\ \E io_ok \in BOOLEAN :
        /\ save_result' = SaveToJson(io_ok)
        /\ exit_code' = ExitStatus(SaveToJson(io_ok))
    /\ pc' = "done"
    /\ UNCHANGED <<crawlRest, page_num, article_links, idx, articles, visited_urls,
                   listing_fetches, loop_pages, article_fetches, halt,
                   linkVars, fetchVars, contentVars>>

NextCrawl ==
    \/ StopAtArticleLimit
    \/ StopAtPageLimit
    \/ FetchListing
    \/ CrawlNextArticle
    \/ EndOfPage
    \/ Save

SpecCrawl == InitCrawl /\ [][NextCrawl]_vars

-----------------------------------------------------------------------------
(* Properties *)

Range(q) == {q[i] : i \in 1..Len(q)}

NoRepeats(q) == \A i, j \in 1..Len(q) : i # j => q[i] # q[j]

UpTo(n) == [i \in 1..n |-> i]

\* ---- C1
\* the result sequence holds at most N records
C1_WithinLimit ==
    max_articles >= 1 => Len(articles) <= max_articles

\* a step taken with N records held fetches nothing
C1_NoFetchAtLimit ==
    (max_articles >= 1 /\ Len(articles) >= max_articles)
        => (listing_fetches' = listing_fetches /\ article_fetches' = article_fetches)

\* N = 5 on the site "listing10", every fetch and every length gate passed
C1_Scenario ==
    (/\ pc = "done" /\ site = "listing10" /\ max_articles = 5
     /\ halt # "fetch_failed"
     /\ visited_urls = {articles[i].url : i \in 1..Len(articles)})
        => (Len(articles) = 5 /\ listing_fetches = <<1>>)

\* C1: with an article limit N >= 1 the result sequence never holds more than
\* N records; once it holds N records no step fetches an article page or a
\* listing page; and on the site whose page 1 lists ten qualifying
\* candidates, a run with N = 5 in which every fetch succeeded and every
\* article passed the length gate ends with exactly 5 records and has
\* fetched listing page 1 only.
C1_ArticleLimit ==
    [](C1_WithinLimit /\ C1_Scenario) /\ [][C1_NoFetchAtLimit]_vars

C1_Witness ==
    /\ pc = "done" /\ site = "listing10" /\ max_articles = 5
    /\ Len(articles) = 5
    /\ Len(article_fetches) = 5
    /\ visited_urls = {articles[i].url : i \in 1..Len(articles)}
    /\ listing_fetches = <<1>>

\* ---- C2
\* what has run and what has been fetched when an empty page k > 1 halts
\* the run
C2_HaltState ==
    /\ pc = "articles" => article_links # <<>>
    /\ halt = "last_page" =>
          /\ pc \in {"save", "done"}
          /\ page_num > 1
          /\ article_links = <<>>
          /\ loop_pages = UpTo(page_num - 1)
          /\ listing_fetches = UpTo(page_num)

\* a step taken after the halt fetches nothing and turns no page
C2_NoFetchAfterHalt ==
    pc \in {"save", "done"}
        => (listing_fetches' = listing_fetches /\ article_fetches' = article_fetches
            /\ page_num' = page_num)

\* C2: the loop over a page's links is entered only for a page that yielded
\* a candidate; when the run has halted because page k > 1 was fetched and
\* yielded no candidate, the link loops of pages 1..k-1 and no other have
\* run, the listing pages 1..k and no other have been fetched, and no later
\* step fetches anything: page k+1 is never fetched.
C2_EmptyPageHalts ==
    []C2_HaltState /\ [][C2_NoFetchAfterHalt]_vars

C2_Witness ==
    /\ pc = "done" /\ halt = "last_page" /\ page_num = 3
    /\ loop_pages = <<1, 2>> /\ listing_fetches = <<1, 2, 3>>

\* ---- C3
\* C3: no article URL is handed to the fetcher by crawl_article more than
\* once in a run, and the visited set is exactly the set of URLs handed to
\* it, whatever the outcome of the fetch was.
C3_EachArticleUrlFetchedOnce ==
    /\ NoRepeats(article_fetches)
    /\ visited_urls = Range(article_fetches)

\* a URL whose fetch failed has been proposed a second time and skipped
C3_Witness ==
    /\ pc = "articles" /\ idx = 3
    /\ article_links[1].url = article_links[2].url
    /\ article_links[1].url \notin {articles[i].url : i \in 1..Len(articles)}
    /\ article_fetches = <<article_links[1].url>>

\* ---- C4
AllFailed(q) == \A i \in 1..Len(q) : ~q[i].ok

\* C4: with max_retries >= 1, get_page_content issues at most max_retries
\* GETs, none after a successful one; no exception escapes it; it returns
\* the body of the first successful GET, or None when max_retries GETs have
\* all failed.
C4_BoundedRetries ==
    f_max_retries >= 1 =>
        /\ f_gets = Len(f_responses)
        /\ f_gets <= f_max_retries
        /\ f_pc # "raised"
        /\ \A i \in 1..Len(f_responses) :
              f_responses[i].ok => (i = Len(f_responses) /\ f_pc = "returned")
        /\ f_pc = "returned" =>
              \/ /\ f_gets >= 1
                 /\ f_responses[f_gets].ok
                 /\ f_result = Text(f_responses[f_gets].body)
              \/ /\ f_gets = f_max_retries
                 /\ AllFailed(f_responses)
                 /\ f_result = None

C4_Witness ==
    /\ f_pc = "returned" /\ f_max_retries = 3 /\ f_gets = 3
    /\ AllFailed(f_responses) /\ f_result = None
    /\ {f_responses[i].error : i \in 1..3} = Failures

\* ---- C5
\* the host is cisa.gov or a subdomain of it
OnTargetDomain(u) ==
    Len(u.host) >= 2 /\ u.host[Len(u.host) - 1] = "cisa" /\ u.host[Len(u.host)] = "gov"

Qualifies(cand) ==
    /\ cand.url.host # NoHost
    /\ OnTargetDomain(cand.url)
    /\ cand.url.ext \notin {".pdf", ".doc", ".docx"}
    /\ cand.title > 10

\* C5: every candidate extract_article_links returns has an absolute URL on
\* the target domain that does not end in .pdf, .doc or .docx, and a title
\* longer than 10 characters.
C5_CandidatesQualify ==
    l_pc = "done" => \A i \in 1..Len(l_result) : Qualifies(l_result[i])

\* ---- C6
RECURSIVE IsSubsequence(_, _)
IsSubsequence(a, b) ==
    IF a = <<>> THEN TRUE
    ELSE IF b = <<>> THEN FALSE
    ELSE IF Head(a) = Head(b) THEN IsSubsequence(Tail(a), Tail(b))
    ELSE IsSubsequence(a, Tail(b))

Resolved(anchors, page_url) ==
    [i \in 1..Len(anchors) |->
        Candidate(anchors[i].title, UrlJoin(page_url, anchors[i].href))]

\* C6: the sequence one call of extract_article_links returns holds no two
\* candidates with the same resolved URL, and its candidates are in the
\* document order of their anchors.
C6_NoDuplicatesInDocumentOrder ==
    l_pc = "done" =>
        /\ NoRepeats([i \in 1..Len(l_result) |-> l_result[i].url])
        /\ IsSubsequence(l_result, Resolved(l_html.anchors, PageUrl(l_page)))

\* ---- C7
\* C7: the candidates link discovery hands to the loop over a page's links
\* hold no URL that is in the visited set at that moment.
C7_NeverProposesVisited ==
    (pc = "articles" /\ idx = 1) =>
        \A i \in 1..Len(article_links) : article_links[i].url \notin visited_urls

\* ---- C8
LongRegions(html) ==
    {i \in Selectors : html.regions[i].present
                       /\ TextLen(html.regions[i].text) > 200}

FirstLongRegionElseBody(html) ==
    IF LongRegions(html) # {}
    THEN html.regions[CHOOSE i \in LongRegions(html) :
                          \A j \in LongRegions(html) : i <= j].text
    ELSE html.body.text

\* C8: on a page with a body, the text taken is that of the first cascade
\* region whose text is longer than 200 characters, and the body's text when
\* no region's text is longer than 200 characters (a region of exactly 200
\* characters included).
C8_FirstLongRegionElseBody ==
    (c_pc \in {"extracted", "again"} /\ c_html.body.present)
        => c_selected = FirstLongRegionElseBody(c_html)

\* ---- C9
\* C9 as claimed: the run ends with a non-zero status exactly when the fetch
\* of listing page 1 failed or the report could not be written.
C9_NonZeroExactlyOnFatal ==
    pc = "done" =>
        (exit_code # 0 <=>
            \/ (halt = "fetch_failed" /\ page_num = 1)
            \/ save_result # "written")

\* C9 as amended: every run reaches its end, and ends with status 0: failed
\* article fetches, short contents, a failed listing fetch on any page (page
\* 1 too) and a failed write of the report are all logged and passed over.
C9_AlwaysSuccessOutcome ==
    /\ pc \in {"loop", "articles", "save", "done", "idle"}
    /\ pc # "done" => exit_code = -1
    /\ pc = "done" => (exit_code = 0 /\ save_result \in {"written", "error_logged"})

C9_Witness ==
    /\ pc = "done" /\ halt = "fetch_failed" /\ page_num = 1
    /\ save_result = "error_logged" /\ exit_code = 0

=============================================================================
